---- MODULE Spec2Model ----
(***************************************************************************)
(* Model of the NLU annotation tool backend:                               *)
(*   backend/app.py               - the annotation store and its routes    *)
(*   backend/utils/model_utils.py - the spaCy / Rasa converters and the    *)
(*                                  two trainer adapters                   *)
(*                                                                         *)
(* Python strings are sequences of one-character strings.  Python values   *)
(* that reach int() are tagged records (see IntV, StrV, BadV).  The file   *)
(* system is a set of variables, one per file or directory the code        *)
(* touches.                                                                *)
(***************************************************************************)
EXTENDS Integers, Sequences, FiniteSets, TLC

VARIABLES
    annotationsFile,  \* data/annotations.json: the list of annotation records
    reqs,             \* save_annotation requests: position, payload, loaded list, status
    initialStore,     \* history: annotations.json when the server started
    ioLog,            \* history: the loads and saves of annotations.json, in order
    rasaRes,          \* result of the last annotations_to_rasa_nlu conversion
    spacyRes,         \* result of the last spaCy conversion (train_spacy_model 33-54)
    clock,            \* int(time.time()): wall clock in whole seconds
    nluFile,          \* <rasa project>/data/nlu.yml: content, or NoFile
    backups,          \* <rasa project>/data/nlu.yml.bak_<ts>: ts -> content
    rasaArchives,     \* <rasa project>/models/*.tar.gz: set of [name, mtime]
    outFiles,         \* files under backend/models/: path -> content
    runs,             \* training runs: position and locals of each
    fsWrites          \* history: <<run, path>> for every write under backend/models/

vars == <<annotationsFile, reqs, initialStore, ioLog, rasaRes, spacyRes, clock, nluFile,
          backups, rasaArchives, outFiles, runs, fsWrites>>

-----------------------------------------------------------------------------
(* Bounds of the model                                                     *)

MaxTextLen == 2
MaxEnts == 2
MaxReqs == 3
MaxRuns == 2
MaxClock == 1

-----------------------------------------------------------------------------
(* Python strings and values                                               *)

Letters == {"a", " "}
Whitespace == {" ", "\n"}

RECURSIVE SeqsUpTo(_, _)
SeqsUpTo(S, n) ==
    IF n = 0 THEN {<<>>}
    ELSE LET shorter == SeqsUpTo(S, n - 1)
         IN  shorter \cup {Append(s, x) : s \in {t \in shorter : Len(t) = n - 1}, x \in S}

\* str.strip(): drop leading and trailing whitespace
RECURSIVE LStrip(_)
LStrip(s) == IF s # <<>> /\ Head(s) \in Whitespace THEN LStrip(Tail(s)) ELSE s

RECURSIVE RStrip(_)
RStrip(s) ==
    IF s # <<>> /\ s[Len(s)] \in Whitespace THEN RStrip(SubSeq(s, 1, Len(s) - 1)) ELSE s

Strip(s) == RStrip(LStrip(s))

Min(a, b) == IF a <= b THEN a ELSE b

\* s[a:b] for non-negative a, b: both indices are clamped to len(s)
Slice(s, a, b) == SubSeq(s, Min(a, Len(s)) + 1, Min(b, Len(s)))

\* s[a:]
SliceFrom(s, a) == SubSeq(s, Min(a, Len(s)) + 1, Len(s))

\* s.replace("\n", " ")
ReplaceNewline(s) == [i \in 1..Len(s) |-> IF s[i] = "\n" THEN " " ELSE s[i]]

\* JSON values that the converters pass to int()
IntV(n) == [t |-> "int", v |-> n]   \* a JSON number
StrV(n) == [t |-> "str", v |-> n]   \* a JSON string of digits, e.g. "1"
BadV    == [t |-> "bad", v |-> 0]   \* null or a non-numeric string: int() raises

\* int(x) succeeds
IntOk(x) == x.t \in {"int", "str"}
\* int(x) when it succeeds
IntOf(x) == x.v

-----------------------------------------------------------------------------
(* annotations_to_rasa_nlu (model_utils.py 101-150)                        *)

\* an annotation record without an "intent" key
NoIntent == "<absent>"

\* ann.get("intent", "unknown_intent")
GetIntent(ann) == IF ann.intent = NoIntent THEN "unknown_intent" ELSE ann.intent

\* insertion of e behind every element whose key is <= its own (stable order)
RECURSIVE InsertByStart(_, _)
InsertByStart(sorted, e) ==
    IF sorted = <<>> THEN <<e>>
    ELSE IF IntOf(Head(sorted).start) <= IntOf(e.start)
         THEN <<Head(sorted)>> \o InsertByStart(Tail(sorted), e)
         ELSE <<e>> \o sorted

\* a plausible slip: the entities are used in the order supplied
AsSupplied(ents) == ents

\* sorted(entities, key=lambda e: int(e.get("start", 0))), keys all coercible
RECURSIVE SortedByStart(_)
SortedByStart(ents) ==
    IF ents = <<>> THEN <<>>
    ELSE InsertByStart(SortedByStart(SubSeq(ents, 1, Len(ents) - 1)), ents[Len(ents)])

\* f"[{entity_text}]({label})"
Markup(entity_text, label) == <<"[">> \o entity_text \o <<"]", "(">> \o label \o <<")">>

\* the loop over spans_sorted (lines 126-136); ok = FALSE when int() raises
RECURSIVE MarkSpans(_, _, _, _)
MarkSpans(text, spans, last, marked) ==
    IF spans = <<>> THEN [ok |-> TRUE, s |-> marked \o SliceFrom(text, last)]
    ELSE LET sp == Head(spans)
         IN  IF ~IntOk(sp.start) \/ ~IntOk(sp.end) THEN [ok |-> FALSE, s |-> <<>>]
             ELSE LET s == IntOf(sp.start)
                      e == IntOf(sp.end)
                      entity_text == ReplaceNewline(Slice(text, s, e))
                  IN  MarkSpans(text, Tail(spans), e,
                                marked \o Slice(text, last, s) \o Markup(entity_text, sp.label))

\* one pass of the loop over annotations (lines 115-137):
\* kind "skip" (blank text), "raise" (int() raised) or "ok" with the example
RasaExample(ann) ==
    LET text == Strip(ann.text)
    IN  IF text = <<>> THEN [kind |-> "skip", ex |-> <<>>]
        ELSE IF ann.entities = <<>> THEN [kind |-> "ok", ex |-> text]
        ELSE IF \E i \in 1..Len(ann.entities) : ~IntOk(ann.entities[i].start)
             THEN [kind |-> "raise", ex |-> <<>>]
        ELSE LET m == MarkSpans(text, SortedByStart(ann.entities), 0, <<>>)
             IN  IF m.ok THEN [kind |-> "ok", ex |-> m.s] ELSE [kind |-> "raise", ex |-> <<>>]

\* intents_map.setdefault(intent, []).append(example); dict keeps insertion order
AddExample(map, intent, ex) ==
    IF \E i \in 1..Len(map) : map[i].intent = intent
    THEN [i \in 1..Len(map) |->
            IF map[i].intent = intent
            THEN [map[i] EXCEPT !.examples = Append(@, ex)] ELSE map[i]]
    ELSE Append(map, [intent |-> intent, examples |-> <<ex>>])

RECURSIVE BuildIntentsMap(_, _)
BuildIntentsMap(anns, map) ==
    IF anns = <<>> THEN [ok |-> TRUE, map |-> map]
    ELSE LET r == RasaExample(Head(anns))
         IN  CASE r.kind = "skip"  -> BuildIntentsMap(Tail(anns), map)
               [] r.kind = "raise" -> [ok |-> FALSE, map |-> <<>>]
               [] OTHER -> BuildIntentsMap(Tail(anns),
                                           AddExample(map, GetIntent(Head(anns)), r.ex))

\* "|\n" + "\n".join(f"  - {ex}" for ex in examples)
RECURSIVE JoinBullets(_)
JoinBullets(examples) ==
    IF examples = <<>> THEN <<>>
    ELSE <<" ", " ", "-", " ">> \o Head(examples)
         \o (IF Len(examples) > 1 THEN <<"\n">> \o JoinBullets(Tail(examples)) ELSE <<>>)

ExamplesBlock(examples) == <<"|", "\n">> \o JoinBullets(examples)

\* the document dumped to data/nlu.yml (lines 141-148)
NluSection(map) ==
    [version |-> "2.0",
     nlu |-> [i \in 1..Len(map) |->
                [intent |-> map[i].intent, examples |-> ExamplesBlock(map[i].examples)]]]

\* the whole converter: ok = FALSE when it raises before nlu.yml is opened
AnnotationsToRasaNlu(anns) ==
    LET b == BuildIntentsMap(anns, <<>>)
    IN  IF b.ok THEN [ok |-> TRUE, map |-> b.map, doc |-> NluSection(b.map)]
        ELSE [ok |-> FALSE, map |-> <<>>, doc |-> NluSection(<<>>)]

-----------------------------------------------------------------------------
(* the spaCy conversion inside train_spacy_model (model_utils.py 33-54)    *)

\* a plausible slip: `break` for `continue`, the first bad entity ends the loop
RECURSIVE SpacyEntsUntilBad(_)
SpacyEntsUntilBad(ents) ==
    IF ents = <<>> THEN <<>>
    ELSE LET e == Head(ents)
         IN  IF IntOk(e.start) /\ IntOk(e.end)
             THEN <<<<IntOf(e.start), IntOf(e.end), e.label>>>> \o SpacyEntsUntilBad(Tail(ents))
             ELSE <<>>

\* the try block of lines 42-49 over one record's entities
RECURSIVE SpacyEnts(_)
SpacyEnts(ents) ==
    IF ents = <<>> THEN <<>>
    ELSE LET e == Head(ents)
         IN  IF IntOk(e.start) /\ IntOk(e.end)
             THEN <<<<IntOf(e.start), IntOf(e.end), e.label>>>> \o SpacyEnts(Tail(ents))
             ELSE SpacyEnts(Tail(ents))

\* labels.add(lab) is reached only after both int() calls succeeded
EntLabels(ents) == {SpacyEnts(ents)[i][3] : i \in 1..Len(SpacyEnts(ents))}

RECURSIVE SpacyTrainingData(_)
SpacyTrainingData(anns) ==
    IF anns = <<>> THEN <<>>
    ELSE LET ann == Head(anns)
         IN  (IF ann.text # <<>>
              THEN <<[text |-> ann.text, entities |-> SpacyEnts(ann.entities)]>>
              ELSE <<>>) \o SpacyTrainingData(Tail(anns))

\* ok = FALSE is the RuntimeError of line 54
SpacyConvert(anns) ==
    LET td == SpacyTrainingData(anns)
    IN  [ok |-> td # <<>>,
         training_data |-> td,
         labels |-> UNION {EntLabels(anns[i].entities) : i \in 1..Len(anns)}]

-----------------------------------------------------------------------------
(* Inputs of the converters                                                *)

Labels == {<<"c">>, <<"q">>}

\* texts over the letters, and two that hold a newline
Texts == SeqsUpTo(Letters, MaxTextLen) \cup {<<"a", "\n">>, <<"\n", "a">>}

Positions == 0..MaxTextLen

\* entities whose start and end are JSON numbers (any order, any range)
NumberEnts ==
    {[start |-> IntV(s), end |-> IntV(e), label |-> l] :
        s \in Positions, e \in Positions, l \in Labels}

\* entities whose start or end is no JSON number
OtherEnts ==
    {[start |-> se[1], end |-> se[2], label |-> l] :
        se \in {<<BadV, IntV(1)>>, <<IntV(0), BadV>>, <<StrV(0), StrV(1)>>}, l \in Labels}

Ents == NumberEnts \cup OtherEnts

EntLists == SeqsUpTo(Ents, MaxEnts)

Record(t, i, es) == [text |-> t, intent |-> i, entities |-> es]

\* a second record of the list: same intent, other intent, no intent, blank text
OtherRecords ==
    {Record(<<"a">>, i, <<>>) : i \in {"greet", "bye", NoIntent}}
    \cup {Record(<<" ">>, "greet", <<>>)}

\* the stored lists the converters are applied to: none, one record, or one
\* record next to a second one
IsConvInput(anns) ==
    \/ anns = <<>>
    \/ \E t \in Texts, es \in EntLists : anns = <<Record(t, "greet", es)>>
    \/ \E t \in Texts, es \in SeqsUpTo(Ents, 1), o \in OtherRecords :
          \/ anns = <<Record(t, "greet", es), o>>
          \/ anns = <<o, Record(t, "greet", es)>>

-----------------------------------------------------------------------------
(* Initial values                                                          *)

NoFile == [exists |-> FALSE, doc |-> NluSection(<<>>)]
FileOf(d) == [exists |-> TRUE, doc |-> d]

NoRasaRes == [done |-> FALSE, ok |-> FALSE, map |-> <<>>, doc |-> NluSection(<<>>)]
NoSpacyRes == [done |-> FALSE, ok |-> FALSE, training_data |-> <<>>, labels |-> {}]

ConvIdle ==
    /\ rasaRes = NoRasaRes
    /\ spacyRes = NoSpacyRes

StoreIdle ==
    /\ reqs = <<>>
    /\ initialStore = annotationsFile
    /\ ioLog = <<>>

TrainIdle ==
    /\ clock = 0
    /\ nluFile = NoFile
    /\ backups = <<>>
    /\ rasaArchives = {}
    /\ outFiles = <<>>
    /\ runs = <<>>
    /\ fsWrites = {}

storeVars == <<annotationsFile, reqs, initialStore, ioLog>>
convVars == <<rasaRes, spacyRes>>
trainVars == <<clock, nluFile, backups, rasaArchives, outFiles, runs, fsWrites>>

-----------------------------------------------------------------------------
(* The converters applied to one stored annotation list                    *)

InitConv ==
    /\ IsConvInput(annotationsFile)
    /\ ConvIdle /\ StoreIdle /\ TrainIdle

\* annotations_to_rasa_nlu(annotations, rasa_project_path), up to the dump
ConvertRasa ==
    /\ ~rasaRes.done
    /\ rasaRes' = AnnotationsToRasaNlu(annotationsFile) @@ [done |-> TRUE]
    /\ UNCHANGED <<storeVars, spacyRes, trainVars>>

\* lines 33-54 of train_spacy_model
ConvertSpacy ==
    /\ ~spacyRes.done
    /\ spacyRes' = SpacyConvert(annotationsFile) @@ [done |-> TRUE]
    /\ UNCHANGED <<storeVars, rasaRes, trainVars>>

NextRasa == ConvertRasa
SpecRasa == InitConv /\ [][NextRasa]_vars

NextSpacy == ConvertSpacy
SpecSpacy == InitConv /\ [][NextSpacy]_vars

-----------------------------------------------------------------------------
(* Claims about the converters                                             *)

\* re-extraction of [span](label) markup from an example, left to right:
\* the entity texts with their labels, and the text with the markup removed
RECURSIVE ScanMarkup(_, _, _, _, _)
ScanMarkup(s, mode, cur, lab, acc) ==
    IF s = <<>> THEN acc
    ELSE LET c == Head(s)
             rest == Tail(s)
         IN  CASE mode = "plain" ->
                    IF c = "[" THEN ScanMarkup(rest, "span", <<>>, <<>>, acc)
                    ELSE ScanMarkup(rest, "plain", cur, lab,
                                    [acc EXCEPT !.plain = Append(@, c)])
               [] mode = "span" ->
                    IF c = "]" THEN ScanMarkup(rest, "open", cur, lab, acc)
                    ELSE ScanMarkup(rest, "span", Append(cur, c), lab, acc)
               [] mode = "open" -> ScanMarkup(rest, "label", cur, <<>>, acc)
               [] OTHER ->
                    IF c = ")"
                    THEN ScanMarkup(rest, "plain", <<>>, <<>>,
                                    [plain |-> acc.plain \o cur,
                                     ents |-> Append(acc.ents, [text |-> cur, label |-> lab])])
                    ELSE ScanMarkup(rest, "label", cur, Append(lab, c), acc)

ExtractMarkup(ex) == ScanMarkup(ex, "plain", <<>>, <<>>, [plain |-> <<>>, ents |-> <<>>])

\* spans are JSON numbers, inside the text, ascending and non-overlapping
SpansInOrder(ann) ==
    LET es == ann.entities
    IN  /\ \A i \in 1..Len(es) :
              /\ es[i].start.t = "int" /\ es[i].end.t = "int"
              /\ es[i].start.v <= es[i].end.v
              /\ es[i].end.v <= Len(ann.text)
        /\ \A i \in 1..Len(es) : \A j \in 1..Len(es) :
              i < j => es[i].end.v <= es[j].start.v

\* the only record of the stored list, once converted into exactly one example
TheRecord == annotationsFile[1]
OneExample ==
    /\ rasaRes.done /\ rasaRes.ok
    /\ Len(annotationsFile) = 1
    /\ Len(rasaRes.map) = 1 /\ Len(rasaRes.map[1].examples) = 1
TheExample == rasaRes.map[1].examples[1]

\* C7: for a record whose spans are in-text, ascending and non-overlapping, the
\* markup of its Rasa example, re-extracted in order, gives the record's entity
\* texts text[start:end] with their labels, and the example without markup is
\* the record's text.
C7_RoundTrip ==
    (OneExample /\ SpansInOrder(TheRecord)) =>
        LET x == ExtractMarkup(TheExample)
            es == TheRecord.entities
        IN  /\ x.ents = [i \in 1..Len(es) |->
                            [text |-> Slice(TheRecord.text, es[i].start.v, es[i].end.v),
                             label |-> es[i].label]]
            /\ x.plain = TheRecord.text

\* the record " a" with the span (1, 2) over its letter was converted, and the
\* example marks an empty span behind the letter
C7_ShiftedSpan ==
    /\ OneExample
    /\ TheRecord.text = <<" ", "a">>
    /\ TheRecord.entities = <<[start |-> IntV(1), end |-> IntV(2), label |-> <<"c">>]>>
    /\ TheExample = <<"a", "[", "]", "(", "c", ")">>

\* the permutations of 1..n
Perms(n) == {p \in [1..n -> 1..n] : \A i \in 1..n : \E j \in 1..n : p[j] = i}

Permuted(ann, p) == [ann EXCEPT !.entities = [i \in 1..Len(ann.entities) |-> ann.entities[p[i]]]]

\* the conversion gives the same outcome for every order of the first record's entities
SameForEveryOrder ==
    \A p \in Perms(Len(TheRecord.entities)) :
        LET other == AnnotationsToRasaNlu(
                        [annotationsFile EXCEPT ![1] = Permuted(TheRecord, p)])
        IN  other.ok = rasaRes.ok /\ other.map = rasaRes.map

\* C8 (as stated): for every record the Rasa example is the same for every
\* permutation of the record's entity list.
C8_AnyRecordOrderIndependent ==
    (rasaRes.done /\ annotationsFile # <<>>) => SameForEveryOrder

\* the starts are integer-coercible and pairwise distinct once coerced
DistinctStarts(ann) ==
    LET es == ann.entities
    IN  /\ \A i \in 1..Len(es) : IntOk(es[i].start)
        /\ \A i \in 1..Len(es) : \A j \in 1..Len(es) :
              i # j => IntOf(es[i].start) # IntOf(es[j].start)

\* C8 (amended): for every record whose entities have integer-coercible,
\* pairwise distinct starts, the outcome of the conversion is the same for
\* every permutation of the record's entity list.
C8_DistinctStartsOrderIndependent ==
    (rasaRes.done /\ annotationsFile # <<>> /\ DistinctStarts(TheRecord))
        => SameForEveryOrder

\* two entities supplied in descending start order were converted into markup
C8_Witness ==
    /\ OneExample
    /\ Len(TheRecord.entities) = 2
    /\ DistinctStarts(TheRecord)
    /\ IntOf(TheRecord.entities[1].start) > IntOf(TheRecord.entities[2].start)
    /\ Len(ExtractMarkup(TheExample).ents) = 2
    /\ ExtractMarkup(TheExample).ents[1].text # <<>>

\* both int() calls of the try block succeed
Coercible(e) == IntOk(e.start) /\ IntOk(e.end)

\* the records that reach training_data
WithText(anns) == SelectSeq(anns, LAMBDA a : a.text # <<>>)

\* C9: in the spaCy conversion every record with non-empty text stays in the
\* training data, with exactly its coercible entities in their original order;
\* an entity whose start or end is not coercible is left out and contributes
\* no label.
C9_MalformedEntityDropped ==
    spacyRes.done =>
        LET kept == WithText(annotationsFile)
        IN  /\ Len(spacyRes.training_data) = Len(kept)
            /\ \A k \in 1..Len(kept) :
                  LET good == SelectSeq(kept[k].entities, Coercible)
                      got == spacyRes.training_data[k]
                  IN  /\ got.text = kept[k].text
                      /\ Len(got.entities) = Len(good)
                      /\ \A i \in 1..Len(good) :
                            got.entities[i] =
                                <<IntOf(good[i].start), IntOf(good[i].end), good[i].label>>
            /\ spacyRes.labels =
                  UNION {{es[i].label : i \in {n \in 1..Len(es) : Coercible(es[n])}} :
                            es \in {annotationsFile[k].entities : k \in 1..Len(annotationsFile)}}

\* a record with a malformed entity ahead of a well-formed one was converted
C9_Witness ==
    /\ spacyRes.done /\ spacyRes.ok
    /\ Len(annotationsFile) = 1
    /\ Len(TheRecord.entities) = 2
    /\ ~Coercible(TheRecord.entities[1])
    /\ Coercible(TheRecord.entities[2])
    /\ TheRecord.entities[1].label # TheRecord.entities[2].label
    /\ Len(spacyRes.training_data[1].entities) = 1

-----------------------------------------------------------------------------
(* save_annotation (app.py 48-67)                                          *)

\* a payload without a "text" key
NoText == <<"<absent>">>

\* request bodies: two records, an object without "text", and an empty object
\* (for which `not payload` holds)
EmptyPayload == Record(NoText, NoIntent, <<>>)
Payloads ==
    { Record(<<"a">>, "greet", <<>>),
      Record(<<"a", " ">>, NoIntent,
             <<[start |-> IntV(0), end |-> IntV(1), label |-> <<"c">>]>>),
      Record(NoText, "greet", <<>>),
      EmptyPayload }

\* line 61: not payload or 'text' not in payload
InvalidPayload(p) == p = EmptyPayload \/ p.text = NoText

\* a plausible slip: the new record goes to the front
AppendPayloadFront(annotations, payload) == <<payload>> \o annotations

\* line 65: annotations.append(payload)
AppendPayload(annotations, payload) == Append(annotations, payload)

\* a plausible slip: the file opened with 'a', `data` lands behind the old content
SaveAnnotationsAppending(current, data) == current \o data

\* _save_annotations: open(..., 'w') replaces the whole file by `data`
SaveAnnotations(current, data) == data

InitStore ==
    /\ annotationsFile \in {<<>>, <<Record(<<" ", "a">>, "bye", <<>>)>>}
    /\ StoreIdle /\ ConvIdle /\ TrainIdle

NewRequest(p) ==
    [pc |-> IF InvalidPayload(p) THEN "done" ELSE "load",
     payload |-> p,
     annotations |-> <<>>,
     status |-> IF InvalidPayload(p) THEN 400 ELSE 0]

\* lines 60-62: a request arrives and its payload is validated
Receive(p) ==
    /\ Len(reqs) < MaxReqs
    /\ reqs' = Append(reqs, NewRequest(p))
    /\ UNCHANGED <<annotationsFile, initialStore, ioLog, convVars, trainVars>>

\* lines 64-65: the whole file is read and the payload appended in memory
Load(i) ==
    /\ reqs[i].pc = "load"
    /\ reqs' = [reqs EXCEPT ![i].pc = "save",
                            ![i].annotations = AppendPayload(annotationsFile, reqs[i].payload)]
    /\ ioLog' = Append(ioLog, <<"load", i>>)
    /\ UNCHANGED <<annotationsFile, initialStore, convVars, trainVars>>

\* lines 66-67: the whole file is written and 201 returned
Save(i) ==
    /\ reqs[i].pc = "save"
    /\ annotationsFile' = SaveAnnotations(annotationsFile, reqs[i].annotations)
    /\ reqs' = [reqs EXCEPT ![i].pc = "done", ![i].status = 201]
    /\ ioLog' = Append(ioLog, <<"save", i>>)
    /\ UNCHANGED <<initialStore, convVars, trainVars>>

\* the server handles requests in parallel (Flask threads or workers)
NextStore ==
    \/ \E p \in Payloads : Receive(p)
    \/ \E i \in 1..Len(reqs) : Load(i)
    \/ \E i \in 1..Len(reqs) : Save(i)

SpecStore == InitStore /\ [][NextStore]_vars

\* requests one after another: none arrives while another is being handled
AllDone == \A i \in 1..Len(reqs) : reqs[i].pc = "done"

ReceiveAlone(p) == AllDone /\ Receive(p)

NextSeq ==
    \/ \E p \in Payloads : ReceiveAlone(p)
    \/ \E i \in 1..Len(reqs) : Load(i)
    \/ \E i \in 1..Len(reqs) : Save(i)

SpecSeq == InitStore /\ [][NextSeq]_vars

-----------------------------------------------------------------------------
(* Claims about the annotation store                                       *)

\* position of an event in ioLog (0 when it has not happened)
EventAt(kind, i) ==
    IF \E k \in 1..Len(ioLog) : ioLog[k] = <<kind, i>>
    THEN CHOOSE k \in 1..Len(ioLog) : ioLog[k] = <<kind, i>>
    ELSE 0

Saved == {i \in 1..Len(reqs) : reqs[i].status = 201}
Loaded == {i \in 1..Len(reqs) : EventAt("load", i) > 0}

\* C4: when exactly two requests have loaded the store and both returned 201,
\* the write that landed last decides the file: if the last writer loaded
\* before the other one saved, the file is the initial content plus the last
\* writer's record only (the other record is lost); otherwise it holds both
\* records in write order.
C4_LastWriteWins ==
    \A i \in Saved : \A j \in Saved :
        (i # j /\ Loaded = {i, j} /\ EventAt("save", j) < EventAt("save", i)) =>
            IF EventAt("load", i) < EventAt("save", j)
            THEN annotationsFile = Append(initialStore, reqs[i].payload)
            ELSE annotationsFile =
                    Append(Append(initialStore, reqs[j].payload), reqs[i].payload)

\* both requests returned 201 and the store holds only one of the two records
C4_Witness ==
    /\ Saved = {1, 2}
    /\ reqs[1].payload # reqs[2].payload
    /\ initialStore # <<>>
    /\ Len(annotationsFile) = Len(initialStore) + 1
    /\ annotationsFile[Len(annotationsFile)] = reqs[1].payload

\* the payloads of the requests that have saved, in submission order
RECURSIVE SavedPayloads(_)
SavedPayloads(rs) ==
    IF rs = <<>> THEN <<>>
    ELSE (IF Head(rs).status = 201 THEN <<Head(rs).payload>> ELSE <<>>)
         \o SavedPayloads(Tail(rs))

\* C5: with requests handled one after another, the store is its initial
\* content followed by exactly the saved payloads in submission order.
C5_SequentialAppend ==
    annotationsFile = initialStore \o SavedPayloads(reqs)

\* two different records were saved one after the other onto a non-empty store
C5_Witness ==
    /\ Cardinality(Saved) = 2
    /\ \A i \in Saved : \A j \in Saved : i # j => reqs[i].payload # reqs[j].payload
    /\ initialStore # <<>>
    /\ Len(annotationsFile) = Len(initialStore) + 2

-----------------------------------------------------------------------------
(* The trainer adapters (model_utils.py 12-97, 173-278)                    *)

\* stdout[:4000], stderr[:4000]
SnippetLen == 4000
Snippet(s) == SubSeq(s, 1, Min(Len(s), SnippetLen))

\* paths under backend/models/
ModelVersionDir(ts) == <<"spacy_model", "model_v", ts>>         \* line 88
SpacyMetaFile(ts)   == <<"spacy_model", "meta_v", ts, ".json">> \* line 94
LogFile(ts)         == <<"rasa_model", "training_log_", ts, ".txt">>  \* line 235
DestPath(ts)        == <<"rasa_model", "model_v", ts, ".tar.gz">>     \* lines 261-262
MetaFile            == <<"rasa_model", "metadata.json">>              \* line 274

\* _which_rasa_executable() + ["train", "nlu"]
RasaCmd(onPath) ==
    IF onPath THEN <<"rasa", "train", "nlu">>
    ELSE <<"python", "-m", "rasa", "train", "nlu">>

\* a plausible slip: a stream section is written only when the stream is not empty
LogTextNoEmptyStreams(cmd, cwd, stdout, stderr) ==
    <<"CMD: ", cmd, "CWD: ", cwd>>
    \o (IF stdout # <<>> THEN <<"=== STDOUT ===", stdout>> ELSE <<>>)
    \o (IF stderr # <<>> THEN <<"=== STDERR ===", stderr>> ELSE <<>>)
\* the text written to the log file (lines 236-242)
LogText(cmd, cwd, stdout, stderr) ==
    <<"CMD: ", cmd, "CWD: ", cwd, "=== STDOUT ===", stdout, "=== STDERR ===", stderr>>

\* the RuntimeError of lines 246-253
FailureMessage(log_file, stderr, stdout) ==
    <<"Rasa training failed. See training log: ", log_file,
      "STDERR:", Snippet(stderr), "STDOUT:", Snippet(stdout)>>

\* find_latest_rasa_model: None, or a newest archive (glob order breaks ties)
NoArchive == [by |-> 0, mtime |-> 0 - 1]
FindLatestRasaModel(archives) ==
    IF archives = {} THEN {NoArchive}
    ELSE {a \in archives : \A b \in archives : b.mtime <= a.mtime}

\* a plausible slip: the check of line 257 left out
NeverMissing(latest) == FALSE

\* line 257: if not latest
ModelMissing(latest) == latest = NoArchive

\* what the environment of one run can be: whether `rasa` is on the PATH, the
\* trainer's exit code and captured streams, and whether it left an archive
\* in <rasa project>/models
Outcomes ==
    { [onPath |-> TRUE,  rc |-> 0, stdout |-> <<"o", "k">>, stderr |-> <<"w">>, archive |-> TRUE],
      [onPath |-> FALSE, rc |-> 0, stdout |-> <<>>,         stderr |-> <<>>,    archive |-> FALSE],
      [onPath |-> TRUE,  rc |-> 1, stdout |-> <<>>,         stderr |-> <<"e">>, archive |-> FALSE] }

RasaProject == "<rasa project>"

\* annotation stores the trainers are run on
GoodRecord == Record(<<"a", "a">>, "greet",
                     <<[start |-> IntV(1), end |-> IntV(2), label |-> <<"c">>]>>)
BadEntRecord == Record(<<"a">>, "bye",
                       <<[start |-> BadV, end |-> IntV(1), label |-> <<"q">>]>>)
OldArchive == [by |-> 0, mtime |-> 0]

\* an nlu.yml left by an earlier training
OldNlu == NluSection(<<[intent |-> "old", examples |-> <<<<"a">>>>]>>)

NewRun(kind) ==
    [kind |-> kind, pc |-> "start", annotations |-> <<>>, nluBefore |-> nluFile,
     overlaps |-> {j \in 1..Len(runs) : runs[j].pc \notin {"done", "failed"}},
     backupTs |-> 0 - 1, cmd |-> <<>>, rc |-> 0 - 1, stdout |-> <<>>, stderr |-> <<>>,
     ts |-> 0 - 1, sawNone |-> FALSE, latest |-> NoArchive,
     failure |-> "", message |-> <<>>, result |-> <<>>]

\* the files under backend/models/ after `path` is written
Written(files, path, content) ==
    [q \in DOMAIN files \cup {path} |-> IF q = path THEN content ELSE files[q]]

Fail(r, kind, msg) == [runs EXCEPT ![r].pc = "failed", ![r].failure = kind, ![r].message = msg]

\* the store, the Rasa project's nlu.yml and its models directory at the start
Worlds ==
    { <<<<>>,                         NoFile,         {OldArchive}>>,
      <<<<GoodRecord>>,               FileOf(OldNlu), {}>>,
      <<<<GoodRecord, BadEntRecord>>, NoFile,         {}>> }

InitTrain ==
    /\ \E w \in Worlds :
          /\ annotationsFile = w[1]
          /\ nluFile = w[2]
          /\ rasaArchives = w[3]
    /\ StoreIdle /\ ConvIdle
    /\ clock = 0
    /\ backups = <<>>
    /\ outFiles = <<>>
    /\ runs = <<>>
    /\ fsWrites = {}

\* a run is about to read time.time() (lines 87, 217, 233)
ReadsClock(r) == runs[r].pc \in {"save", "backup", "run"}

\* time passes; it is observed only by the next read of the clock
Tick ==
    /\ clock < MaxClock
    /\ \E r \in 1..Len(runs) : ReadsClock(r)
    /\ clock' = clock + 1
    /\ UNCHANGED <<storeVars, convVars, nluFile, backups, rasaArchives, outFiles, runs, fsWrites>>

\* POST /train_model with backend "spacy"; train_spacy_model lines 16-84:
\* import spaCy, load and convert the store, train for ten epochs; a failure
\* of the library propagates
StartSpacy ==
    /\ Len(runs) < MaxRuns
    /\ LET r == Len(runs) + 1
           new == Append(runs, NewRun("spacy"))
       IN  \E installed \in BOOLEAN, trained \in BOOLEAN :
              runs' = IF ~installed
                      THEN [new EXCEPT ![r].pc = "failed",
                                       ![r].failure = "DependencyUnavailable"]
                      ELSE IF ~SpacyConvert(annotationsFile).ok
                      THEN [new EXCEPT ![r].pc = "failed", ![r].failure = "EmptyTrainingSet",
                                       ![r].annotations = annotationsFile]
                      ELSE IF ~trained
                      THEN [new EXCEPT ![r].pc = "failed", ![r].failure = "LibraryFailure",
                                       ![r].annotations = annotationsFile]
                      ELSE [new EXCEPT ![r].pc = "save", ![r].annotations = annotationsFile]
    /\ UNCHANGED <<storeVars, convVars, clock, nluFile, backups, rasaArchives, outFiles, fsWrites>>

\* POST /train_model with backend "rasa"; train_rasa_model lines 192-211:
\* resolve the project, load the store, convert it and write nlu.yml
StartRasa ==
    /\ Len(runs) < MaxRuns
    /\ LET r == Len(runs) + 1
           new == Append(runs, [NewRun("rasa") EXCEPT !.annotations = annotationsFile])
           res == AnnotationsToRasaNlu(annotationsFile)
       IN  IF res.ok
           THEN /\ nluFile' = FileOf(res.doc)
                /\ runs' = [new EXCEPT ![r].pc = "backup"]
           ELSE /\ nluFile' = nluFile
                /\ runs' = [new EXCEPT ![r].pc = "failed", ![r].failure = "ConversionError"]
    /\ UNCHANGED <<storeVars, convVars, clock, backups, rasaArchives, outFiles, fsWrites>>

\* train_spacy_model lines 87-97: timestamp, model directory, metadata
\* sidecar, return
SpacySave(r) ==
    /\ runs[r].kind = "spacy" /\ runs[r].pc = "save"
    /\ LET ts == clock
           meta == [kind |-> "spacy_meta", name |-> "spacy_ner",
                    version |-> ts, trained_at |-> ts]
       IN  /\ outFiles' = Written(Written(outFiles, ModelVersionDir(ts),
                                          [kind |-> "spacy_model", by |-> r]),
                                  SpacyMetaFile(ts), meta)
           /\ fsWrites' = fsWrites \cup {<<r, ModelVersionDir(ts)>>, <<r, SpacyMetaFile(ts)>>}
           /\ runs' = [runs EXCEPT ![r].pc = "done", ![r].ts = ts,
                                   ![r].result = ModelVersionDir(ts)]
    /\ UNCHANGED <<storeVars, convVars, clock, nluFile, backups, rasaArchives>>

\* lines 214-221: copy nlu.yml to nlu.yml.bak_<now>; a failed copy is ignored
RasaBackup(r) ==
    /\ runs[r].kind = "rasa" /\ runs[r].pc = "backup"
    /\ \E copied \in BOOLEAN :
          IF nluFile.exists /\ copied
          THEN /\ backups' = [t \in DOMAIN backups \cup {clock} |->
                                IF t = clock THEN nluFile.doc ELSE backups[t]]
               /\ runs' = [runs EXCEPT ![r].pc = "run", ![r].backupTs = clock]
          ELSE /\ backups' = backups
               /\ runs' = [runs EXCEPT ![r].pc = "run"]
    /\ UNCHANGED <<storeVars, convVars, clock, nluFile, rasaArchives, outFiles, fsWrites>>

\* lines 224-253: the external trainer runs to its end; then the timestamp is
\* taken, the log file written, and a non-zero exit raised
RasaSubprocess(r) ==
    /\ runs[r].kind = "rasa" /\ runs[r].pc = "run"
    /\ \E o \in Outcomes :
          LET cmd == RasaCmd(o.onPath)
              ts == clock
              log_file == LogFile(ts)
              exited == [runs EXCEPT ![r].cmd = cmd, ![r].rc = o.rc, ![r].ts = ts,
                                     ![r].stdout = o.stdout, ![r].stderr = o.stderr]
          IN  /\ rasaArchives' = IF o.archive
                                 THEN rasaArchives \cup {[by |-> r, mtime |-> clock]}
                                 ELSE rasaArchives
              /\ outFiles' = Written(outFiles, log_file,
                                     [kind |-> "log",
                                      text |-> LogText(cmd, RasaProject, o.stdout, o.stderr)])
              /\ fsWrites' = fsWrites \cup {<<r, log_file>>}
              /\ runs' = IF o.rc # 0
                         THEN [exited EXCEPT
                                 ![r].pc = "failed", ![r].failure = "SubprocessFailure",
                                 ![r].message = FailureMessage(log_file, o.stderr, o.stdout)]
                         ELSE [exited EXCEPT ![r].pc = "collect"]
    /\ UNCHANGED <<storeVars, convVars, clock, nluFile, backups>>

\* lines 256-278: locate the newest archive and fail when there is none;
\* otherwise copy it into backend/models/rasa_model, write metadata.json, return
RasaCollect(r) ==
    /\ runs[r].kind = "rasa" /\ runs[r].pc = "collect"
    /\ \E latest \in FindLatestRasaModel(rasaArchives) :
          IF ModelMissing(latest)
          THEN /\ runs' = [Fail(r, "ArtifactNotFound",
                                <<"Rasa trained but no model file found. See log: ",
                                  LogFile(runs[r].ts)>>)
                           EXCEPT ![r].sawNone = (rasaArchives = {})]
               /\ UNCHANGED <<outFiles, fsWrites>>
          ELSE LET ts == runs[r].ts
                   metadata == [kind |-> "rasa_meta", trained_at |-> ts,
                                file |-> DestPath(ts), original_model_path |-> latest,
                                training_log |-> LogFile(ts),
                                rasa_stdout_snippet |-> Snippet(runs[r].stdout),
                                rasa_stderr_snippet |-> Snippet(runs[r].stderr)]
               IN  /\ outFiles' = Written(Written(outFiles, DestPath(ts),
                                                  [kind |-> "archive", src |-> latest]),
                                          MetaFile, metadata)
                   /\ fsWrites' = fsWrites \cup {<<r, DestPath(ts)>>, <<r, MetaFile>>}
                   /\ runs' = [runs EXCEPT ![r].pc = "done", ![r].latest = latest,
                                           ![r].sawNone = (rasaArchives = {}),
                                           ![r].result = DestPath(ts)]
    /\ UNCHANGED <<storeVars, convVars, clock, nluFile, backups, rasaArchives>>

NextTrain ==
    \/ Tick
    \/ StartSpacy
    \/ StartRasa
    \/ \E r \in 1..Len(runs) : SpacySave(r)
    \/ \E r \in 1..Len(runs) : RasaBackup(r)
    \/ \E r \in 1..Len(runs) : RasaSubprocess(r)
    \/ \E r \in 1..Len(runs) : RasaCollect(r)

SpecTrain == InitTrain /\ [][NextTrain]_vars

-----------------------------------------------------------------------------
(* Claims about the trainer adapters                                       *)

RasaRuns == {r \in 1..Len(runs) : runs[r].kind = "rasa"}
Ended(r) == runs[r].pc \in {"done", "failed"}
\* the subprocess of run r was invoked and has finished
Exited(r) == runs[r].rc >= 0

\* C1: when nlu.yml existed at the start of a Rasa run and the backup copy
\* succeeded, the backup file holds the content nlu.yml had before the run.
C1_BackupHoldsPreviousContent ==
    \A r \in RasaRuns :
        (runs[r].nluBefore.exists /\ runs[r].backupTs >= 0) =>
            backups[runs[r].backupTs] = runs[r].nluBefore.doc

\* the log text names the command and the working directory and has both
\* stream sections, filled from one run that logged under this timestamp
IsLogOf(text, ts) ==
    /\ Len(text) = 8
    /\ text[1] = "CMD: " /\ text[3] = "CWD: " /\ text[4] = RasaProject
    /\ text[5] = "=== STDOUT ===" /\ text[7] = "=== STDERR ==="
    /\ \E q \in RasaRuns :
          /\ Exited(q) /\ runs[q].ts = ts
          /\ text[2] = runs[q].cmd /\ text[6] = runs[q].stdout /\ text[8] = runs[q].stderr

Concurrent(a, b) == a \in runs[b].overlaps \/ b \in runs[a].overlaps

\* C3: two concurrent training runs of the same backend never write to the
\* same path under models/.
C3_ConcurrentRunsDistinctPaths ==
    \A a \in 1..Len(runs) : \A b \in 1..Len(runs) :
        (a # b /\ runs[a].kind = runs[b].kind /\ Concurrent(a, b)) =>
            ~ \E w \in fsWrites : w[1] = a /\ <<b, w[2]>> \in fsWrites

\* C6: a Rasa run whose subprocess exited with 0 and that found no archive in
\* the project's models directory ends in failure, having copied no
\* model_v<ts>.tar.gz and written no metadata.json.
C6_NoArchiveIsFailure ==
    \A r \in RasaRuns :
        (runs[r].rc = 0 /\ Ended(r) /\ runs[r].sawNone) =>
            /\ runs[r].pc = "failed"
            /\ runs[r].failure = "ArtifactNotFound"
            /\ <<r, DestPath(runs[r].ts)>> \notin fsWrites
            /\ <<r, MetaFile>> \notin fsWrites

\* a run failed for want of an archive although the trainer exited with 0
C6_Witness ==
    \E r \in RasaRuns :
        /\ runs[r].rc = 0 /\ runs[r].pc = "failed" /\ runs[r].sawNone
        /\ LogFile(runs[r].ts) \in DOMAIN outFiles

\* some record holds an entity whose start or end is not integer-coercible
HasMalformed(anns) ==
    \E k \in 1..Len(anns) : \E i \in 1..Len(anns[k].entities) :
        ~Coercible(anns[k].entities[i])

WithoutMalformed(anns) ==
    [k \in 1..Len(anns) |-> [anns[k] EXCEPT !.entities = SelectSeq(@, Coercible)]]

\* C10: a Rasa run over a list with a malformed entity does not fail in the
\* conversion; nlu.yml is written with the examples of all records, the
\* malformed entity skipped.
C10_RasaSkipsMalformed ==
    \A r \in RasaRuns :
        HasMalformed(runs[r].annotations) =>
            /\ runs[r].failure # "ConversionError"
            /\ nluFile = FileOf(AnnotationsToRasaNlu(WithoutMalformed(runs[r].annotations)).doc)

====
